---------------------------- MODULE Spec2Model ----------------------------
(***************************************************************************)
(* Boomerang arena game: the round/match state machine (GameScene),        *)
(* GameState's scoring, and the per-frame systems that decide kills        *)
(* (PlayerSystem, TerrainSystem, BoomerangSystem, CollisionSystem).        *)
(*                                                                         *)
(* One rendered frame runs the systems in priority order (Player 10,       *)
(* Terrain 15, Boomerang 20, Collision 30) and then the scene's onUpdate;  *)
(* pc names the step that runs next, a system that returns at its state    *)
(* test being passed over.  setTimeout callbacks run between frames.       *)
(* Geometry is not modelled: which circles overlap in a frame and whether  *)
(* a projectile is slow are inputs of the step, like the players' buttons. *)
(* Tick lengths are counted on a shorter scale that keeps their order (the *)
(* *Ticks definitions).  budget holds what is left of the bounds of a run. *)
(***************************************************************************)
EXTENDS Integers, Sequences, FiniteSets, TLC

(* ------------------------------------------------------------------ *)
(* Tick lengths, scaled.  Source values in brackets.                  *)
(* ------------------------------------------------------------------ *)
ReadyTicks == 1          \* stateTimer = 45 in startRound
AIConfirmTicks == 1      \* Math.min(stateTimer, 30)
ConfirmTicks == 2        \* Math.min(stateTimer, 60)
KoTicks == 2             \* stateTimer = 120 in triggerRoundEnd
RoundEndTicks == 3       \* stateTimer = 180 on entering roundEnd
CatchCooldownTicks == 1  \* PLAYER_CONFIG.catchCooldown = 15
FreshTicks == 1          \* lifetime > 20 in handleBoomerangPlayerCollisions
MaxReturnTicks == 2      \* BOOMERANG_CONFIG.maxReturnTime = 40
MaxLifetimeTicks == 4    \* BOOMERANG_CONFIG.maxLifetime = 300
PowerupTicks == 4        \* timer: 600 in collectPowerup
FreezeTicks == 2         \* POWERUP_CONFIG.freezeDuration = 120
DashTicks == 2           \* PLAYER_CONFIG.dashDuration = 6
DashCooldownTicks == 4   \* PLAYER_CONFIG.dashCooldown = 12
MaxChargeTicks == 2      \* PLAYER_CONFIG.maxCharge = 30
SpawnDelayTicks == 1     \* POWERUP_CONFIG.spawnDelay = 180
RespawnTicks == 1        \* 300 + Math.random() * 300 in updateFight
ReplayMaxFrames == 3     \* GameState.replayMaxFrames = 480
ReplayStartOffset == 2   \* Math.min(180, ...) in startReplay

(* Bounds of the exploration. *)
MaxThrows == 2           \* throws in a run of Spec
PartyThrows == 1         \* throws in a run of SpecParty
PickupThrows == 1        \* throws in a run of SpecPickup
RematchThrows == 2       \* throws in a run of SpecRematch
MatchThrows == 3         \* throws in a run of SpecMatch
MatchRounds == 2         \* rounds after the first in a run of SpecMatch
MaxBounces == 2          \* BOOMERANG_CONFIG.maxBounces (5)
MaxContacts == 3         \* wall and boundary contacts in a run of SpecBounce
BounceThrows == 1        \* throws in a run of SpecBounce
FlightThrows == 1        \* throws in a run of SpecFlight
PenetrateThrows == 1     \* throws in a run of SpecPenetrate
MaxRecorded == 5         \* frames recorded in a run of SpecReplay
MaxAdvances == 6         \* advanceReplay calls in a run of SpecReplay
TeamThrows == 1          \* throws in a run of SpecTeams
BurnTicks == 6           \* POWERUP_CONFIG.burnDuration = 180
BurnDamageTicks == 2     \* POWERUP_CONFIG.burnDamageInterval = 60
TrailTicks == 2          \* a fire trail every 8 updates of a fire projectile
FireTrailTicks == 2      \* fireTrail.life = 120
BurnThrows == 1          \* throws in a run of SpecBurn
PauseThrows == 1         \* throws in a run of SpecPause
DashThrows == 1          \* throws in a run of SpecDash
MaxDashes == 2           \* dashes in a run of SpecDash
HoldTicks == 3           \* updates a player holds the action for in SpecCharge
MaxPending == 1          \* setTimeout callbacks pending while frames go on
MaxPauses == 2           \* pause presses in a run of SpecPause
MoveCooldownTicks == 1   \* menuCooldown = 12 after a menu move
ActionCooldownTicks == 1 \* menuCooldown = 15 after a menu action
WinCooldownTicks == 1    \* menuCooldown = 30 in endMatch

(* Program constants. *)
ShieldCharges == 3       \* shieldHits = 3 in collectPowerup
KEYBOARD == -99          \* gamepadIndex of the keyboard player
CPU == -2                \* gamepadIndex of a CPU player
DefaultWinScore == 5     \* GameSettings.winScore

PowerupTypes == {"triple", "shield", "freeze"}

VARIABLES
  scene,        \* "game" (GameScene) or "debug" (DebugScene)
  pc,           \* the step of the frame that runs next
  GameSettings, \* [playerCount, players, winScore], fixed when the scene starts
  GameState,    \* the GameState singleton
  players,      \* player entities, players[id + 1].player
  boomerangs,   \* boomerang entities in world order
  fireTrails,   \* the fire trail entities: owner and remaining life
  powerups,     \* pickup entities in world order (their types)
  hasWater,     \* the world holds hazard terrain (DebugScene only)
  timers,       \* pending ko -> roundEnd setTimeout callbacks
  emitted,      \* events emitted by the last step
  moved,        \* players whose transform or velocity the last step wrote
  replay,       \* GameState's replay buffer with its frames, and the playback
  menu,         \* GameScene's menuCooldown, pauseMenuIndex, winMenuIndex, stateBeforePause
  hist,         \* history: what the claims compare against
  budget        \* [throws, draws, pickups, rounds, matches] left in this run

vars == <<scene, pc, GameSettings, GameState, players, boomerangs, fireTrails, powerups,
          hasWater, timers, emitted, moved, replay, menu, hist, budget>>

Max(a, b) == IF a > b THEN a ELSE b
Min(a, b) == IF a < b THEN a ELSE b

Ids(n) == 0 .. (n - 1)

(* ------------------------------------------------------------------ *)
(* GameState (config/GameConfig.ts)                                   *)
(* ------------------------------------------------------------------ *)
NewScore(i) == [playerId |-> i, score |-> 0, kills |-> 0, deaths |-> 0, isAlive |-> TRUE]

initPlayerScores(gs, playerCount) ==
  [gs EXCEPT !.playerScores = [i \in 1 .. playerCount |-> NewScore(i - 1)],
             !.roundNumber = 1]

\* playerScores.find(p => p.playerId === id) is defined
HasScore(gs, id) == id >= 0 /\ id < Len(gs.playerScores)

playerDied(gs, playerId, killerId) ==
  LET g1 == IF HasScore(gs, playerId)
            THEN [gs EXCEPT !.playerScores[playerId + 1].isAlive = FALSE,
                            !.playerScores[playerId + 1].deaths = @ + 1]
            ELSE gs
  IN IF HasScore(g1, killerId) /\ killerId # playerId
     THEN [g1 EXCEPT !.playerScores[killerId + 1].kills = @ + 1]
     ELSE g1

\* an endRound that names the winner and forgets the point
endRoundNoPoint(gs, winnerId) ==
  [gs EXCEPT !.previousScores = [i \in DOMAIN gs.playerScores |-> gs.playerScores[i].score],
             !.roundWinner = winnerId]

endRound(gs, winnerId) ==
  LET g1 == [gs EXCEPT !.previousScores = [i \in DOMAIN gs.playerScores |-> gs.playerScores[i].score]]
      g2 == IF HasScore(g1, winnerId)
            THEN [g1 EXCEPT !.playerScores[winnerId + 1].score = @ + 1]
            ELSE g1
  IN [g2 EXCEPT !.roundWinner = winnerId]

resetRound(gs) ==
  [gs EXCEPT !.roundWinner = -1,
             !.roundWinnerTeam = -1,
             !.playerScores = [i \in DOMAIN gs.playerScores |-> [gs.playerScores[i] EXCEPT !.isAlive = TRUE]],
             !.roundNumber = @ + 1,
             !.replayLen = 0,
             !.replayPlaybackIndex = 0,
             !.replayPlaying = FALSE,
             !.winnerConfirmed = FALSE]

resetMatch(gs) ==
  [gs EXCEPT !.playerScores = << >>,
             !.roundNumber = 1,
             !.roundWinner = -1,
             !.roundWinnerTeam = -1,
             !.previousScores = << >>]

\* the first player, in id order, whose score has reached winScore, or -1
checkGameWinner(gs, winScore) ==
  LET won == {i \in DOMAIN gs.playerScores : gs.playerScores[i].score >= winScore}
  IN IF won = {} THEN -1
     ELSE (CHOOSE i \in won : \A j \in won : i <= j) - 1

recordReplayFrame(gs) ==
  [gs EXCEPT !.replayLen = Min(@ + 1, ReplayMaxFrames)]

startReplay(gs) ==
  LET startOffset == Min(ReplayStartOffset, (gs.replayLen * 6) \div 10)
  IN [gs EXCEPT !.replayPlaying = TRUE,
                !.replayPlaybackIndex = Max(0, gs.replayLen - startOffset)]

\* replaySpeed is 1.2, so replayFrameAccum reaches 1 on every call and the
\* index moves by one frame per call
advanceReplay(gs) ==
  IF ~gs.replayPlaying THEN gs
  ELSE IF gs.replayPlaybackIndex + 1 >= gs.replayLen
       THEN [gs EXCEPT !.replayPlaybackIndex = 0]
       ELSE [gs EXCEPT !.replayPlaybackIndex = @ + 1]

(* The replay with its frames. The rounds above keep the length of the    *)
(* buffer and the playback index only; here the buffer holds the frames,  *)
(* speeds are in tenths, and log is every frame recorded since resetRound *)
(* with dropped the number of frames shifted out of the buffer.           *)
ReplaySpeed == 12

Replay0(speed) ==
  [replayBuffer |-> << >>, replayPlaybackIndex |-> 0, replayPlaying |-> FALSE,
   replayFrameAccum |-> 0, replaySpeed |-> speed, log |-> << >>, dropped |-> 0,
   advances |-> 0]

\* a record that evicts the newest frame of a full buffer
replayRecordPop(r, frame) ==
  LET pushed == Append(r.replayBuffer, frame)
      over == Len(pushed) > ReplayMaxFrames
  IN [r EXCEPT !.replayBuffer = IF over THEN r.replayBuffer ELSE pushed,
               !.log = Append(@, frame),
               !.dropped = IF over THEN @ + 1 ELSE @]

replayRecord(r, frame) ==
  LET pushed == Append(r.replayBuffer, frame)
      over == Len(pushed) > ReplayMaxFrames
  IN [r EXCEPT !.replayBuffer = IF over THEN Tail(pushed) ELSE pushed,
               !.log = Append(@, frame),
               !.dropped = IF over THEN @ + 1 ELSE @]

replayStart(r) ==
  LET startOffset == Min(ReplayStartOffset, (Len(r.replayBuffer) * 6) \div 10)
  IN [r EXCEPT !.replayPlaying = TRUE,
               !.replayPlaybackIndex = Max(0, Len(r.replayBuffer) - startOffset),
               !.replayFrameAccum = 0]

\* null is modelled by the string "null"
getReplayFrame(r) ==
  IF ~r.replayPlaying \/ Len(r.replayBuffer) = 0 THEN "null"
  ELSE IF r.replayPlaybackIndex + 1 \in DOMAIN r.replayBuffer
       THEN r.replayBuffer[r.replayPlaybackIndex + 1]
       ELSE "null"

\* an advance that moves two frames
replayAdvanceTwice(r) ==
  IF ~r.replayPlaying THEN r
  ELSE [r EXCEPT !.replayPlaybackIndex =
                   IF @ + 2 >= Len(r.replayBuffer) THEN 0 ELSE @ + 2,
                 !.advances = @ + 1]

replayAdvance(r) ==
  IF ~r.replayPlaying THEN r
  ELSE LET accum == r.replayFrameAccum + r.replaySpeed
           step == accum >= 10
           index == IF step THEN r.replayPlaybackIndex + 1 ELSE r.replayPlaybackIndex
       IN [r EXCEPT !.replayFrameAccum = IF step THEN accum - 10 ELSE accum,
                    !.replayPlaybackIndex =
                      IF step /\ index >= Len(r.replayBuffer) THEN 0 ELSE index,
                    !.advances = @ + 1]

replayReset(r) == Replay0(r.replaySpeed)

(* ------------------------------------------------------------------ *)
(* Entities (entities/factories.ts)                                   *)
(* ------------------------------------------------------------------ *)
createPlayer(id) ==
  [playerId |-> id, alive |-> TRUE, hasBoomerang |-> TRUE, catchCooldown |-> 0,
   charging |-> FALSE, chargeTime |-> 0,
   dashing |-> FALSE, dashTimer |-> 0, dashCooldown |-> 0,
   powerups |-> << >>, shieldHits |-> 0,
   frozen |-> FALSE, frozenTimer |-> 0, burning |-> FALSE, burnTimer |-> 0]

\* touched: the last system that updated the projectile found it in contact
\* with a wall or with the arena boundary
createBoomerang(ownerId, hasFreeze) ==
  [ownerId |-> ownerId, returning |-> FALSE, returnTimer |-> 0, lifetime |-> 0,
   bounces |-> 0, maxBounces |-> MaxBounces, hasFreeze |-> hasFreeze,
   hasFire |-> FALSE, canPenetrate |-> FALSE, extendedRange |-> FALSE,
   touched |-> FALSE,
   steered |-> FALSE]

createFireTrail(ownerId) == [ownerId |-> ownerId, life |-> FireTrailTicks]

hasPowerup(player, type) ==
  \E i \in DOMAIN player.powerups : player.powerups[i].type = type

\* Array.prototype.splice(i, 1)
Splice(s, i) == [k \in 1 .. (Len(s) - 1) |-> IF k < i THEN s[k] ELSE s[k + 1]]

\* Array.prototype.findIndex, 1-based, 0 when nothing matches
FindShield(s) ==
  IF \E i \in DOMAIN s : s[i].type = "shield"
  THEN CHOOSE i \in DOMAIN s : s[i].type = "shield" /\ \A j \in 1 .. (i - 1) : s[j].type # "shield"
  ELSE 0

(* ------------------------------------------------------------------ *)
(* CollisionSystem: kill resolution and round end.  These operators   *)
(* take and return the world w (see World below) that one pass of a   *)
(* system works on.                                                   *)
(* ------------------------------------------------------------------ *)
AliveIds(ps) == {i \in 1 .. Len(ps) : ps[i].alive}

First(S) == CHOOSE i \in S : \A j \in S : i <= j

\* GameSettings.players[id], or the default when the entry is missing
HasConfig(id) == id >= 0 /\ id < Len(GameSettings.players)
TeamOf(id) == IF HasConfig(id) THEN GameSettings.players[id + 1].teamIndex ELSE -1
GamepadOf(id) == IF HasConfig(id) THEN GameSettings.players[id + 1].gamepadIndex ELSE id

triggerRoundEnd(w, winnerId) ==
  LET w1 == IF winnerId >= 0
            THEN [w EXCEPT !.gs = endRound(w.gs, winnerId),
                           !.hist.endRoundCalls = @ + 1]
            ELSE w
  IN [w1 EXCEPT !.gs.state = "ko",
                !.gs.stateTimer = KoTicks,
                !.timers = @ + 1]

\* a round-end test that knows no teams
checkRoundEndLastOne(w) ==
  LET alive == AliveIds(w.players)
  IN IF Cardinality(alive) <= 1
     THEN IF Cardinality(alive) = 1
          THEN triggerRoundEnd(w, First(alive) - 1)
          ELSE triggerRoundEnd(w, -1)
     ELSE w

checkRoundEnd(w) ==
  LET alive == AliveIds(w.players)
      teamMode == \E i \in DOMAIN GameSettings.players : GameSettings.players[i].teamIndex >= 0
      aliveTeams == {TeamOf(i - 1) : i \in {j \in alive : TeamOf(j - 1) >= 0}}
      soloAlive == Cardinality({j \in alive : TeamOf(j - 1) < 0})
      totalFactions == Cardinality(aliveTeams) + soloAlive
  IN IF Cardinality(alive) <= 1
     THEN IF Cardinality(alive) = 1
          THEN triggerRoundEnd(w, First(alive) - 1)
          ELSE triggerRoundEnd(w, -1)
     ELSE IF teamMode /\ totalFactions <= 1
     THEN IF Cardinality(aliveTeams) = 1
          THEN LET winningTeam == CHOOSE t \in aliveTeams : TRUE
                   teamMember == First({j \in alive : TeamOf(j - 1) = winningTeam})
               IN triggerRoundEnd([w EXCEPT !.gs.roundWinnerTeam = winningTeam], teamMember - 1)
          ELSE IF soloAlive = 1
          THEN triggerRoundEnd(w, First({j \in alive : TeamOf(j - 1) < 0}) - 1)
          ELSE w
     ELSE w

DeathEvent(victimId, killerId) ==
  [type |-> "player:death", victimId |-> victimId, killerId |-> killerId]

killPlayer(w, victimId, killerId) ==
  LET isSelfKill == killerId = victimId
      actualKillerId == IF isSelfKill THEN -1 ELSE killerId
      w1 == [w EXCEPT !.players[victimId + 1].alive = FALSE,
                      !.gs = playerDied(w.gs, victimId, killerId),
                      !.emitted = @ \cup {DeathEvent(victimId, actualKillerId)}]
  IN checkRoundEnd(w1)

catchBoomerang(w, playerId) ==
  [w EXCEPT !.players[playerId + 1].hasBoomerang = TRUE,
            !.emitted = @ \cup {[type |-> "player:catch", playerId |-> playerId]}]

shieldBlock(w, playerId, bi) ==
  LET p == w.players[playerId + 1]
      hits == p.shieldHits - 1
      idx == FindShield(p.powerups)
      pw == IF hits <= 0 /\ idx > 0 THEN Splice(p.powerups, idx) ELSE p.powerups
  IN [w EXCEPT !.players[playerId + 1].shieldHits = hits,
               !.players[playerId + 1].powerups = pw,
               !.boomerangs[bi].returning = FALSE,
               !.boomerangs[bi].returnTimer = 0,
               !.emitted = @ \cup {[type |-> "boomerang:bounce", playerId |-> playerId]}]

freezePlayer(w, victimId, freezerId) ==
  [w EXCEPT !.players[victimId + 1].frozen = TRUE,
            !.players[victimId + 1].frozenTimer = FreezeTicks,
            !.moved = @ \cup {victimId},
            !.emitted = @ \cup {[type |-> "player:freeze", victimId |-> victimId]}]

\* a catch that does not wait for catchCooldown
IsCatchAtOnce(w, bi, playerId) ==
  /\ w.boomerangs[bi].ownerId = playerId
  /\ w.boomerangs[bi].returning

\* lines 255-276: what one overlapping (boomerang, player) pair does;
\* caught tells the caller to break out of the player loop
IsCatch(w, bi, playerId) ==
  /\ w.boomerangs[bi].ownerId = playerId
  /\ w.boomerangs[bi].returning
  /\ w.players[playerId + 1].catchCooldown <= 0

\* a hit branch without the freshness floor
IsHitWhenFresh(w, bi, playerId) == TRUE

IsHit(w, bi, playerId) ==
  \/ w.boomerangs[bi].ownerId # playerId
  \/ w.boomerangs[bi].lifetime > FreshTicks

resolveHit(w, bi, playerId) ==
  LET p == w.players[playerId + 1]
      b == w.boomerangs[bi]
  IN IF hasPowerup(p, "shield") /\ p.shieldHits > 0
     THEN shieldBlock(w, playerId, bi)
     ELSE IF b.hasFreeze /\ ~p.frozen
          THEN freezePlayer(w, playerId, b.ownerId)
          ELSE killPlayer(w, playerId, b.ownerId)

\* the inner loop over players (in world order) for boomerang bi
RECURSIVE boomerangVsPlayers(_, _, _, _)
boomerangVsPlayers(w, bi, playerId, overlap) ==
  IF playerId >= Len(w.players) THEN w
  ELSE IF ~w.players[playerId + 1].alive \/ <<bi, playerId>> \notin overlap
       THEN boomerangVsPlayers(w, bi, playerId + 1, overlap)
       ELSE IF IsCatch(w, bi, playerId)
            THEN [catchBoomerang(w, playerId) EXCEPT !.despawned = @ \cup {bi}]
            ELSE IF IsHit(w, bi, playerId)
                 THEN boomerangVsPlayers(resolveHit(w, bi, playerId), bi, playerId + 1, overlap)
                 ELSE boomerangVsPlayers(w, bi, playerId + 1, overlap)

\* the outer loop, from the last boomerang to the first
RECURSIVE handleBoomerangPlayerCollisions(_, _, _)
handleBoomerangPlayerCollisions(w, bi, overlap) ==
  IF bi < 1 THEN w
  ELSE handleBoomerangPlayerCollisions(boomerangVsPlayers(w, bi, 0, overlap), bi - 1, overlap)

\* handlePlayerPlayerCollisions: every overlapping pair of living players is
\* pushed apart and given an impulse
inPlayerPair(ps, touching, id) ==
  \E pr \in touching : id \in pr /\ \A k \in pr : ps[k + 1].alive

handlePlayerPlayerCollisions(w, touching) ==
  [w EXCEPT !.moved = @ \cup {id \in Ids(Len(w.players)) :
                                  inPlayerPair(w.players, touching, id)}]

collectPowerup(player, type) ==
  [player EXCEPT !.powerups = Append(@, [type |-> type, timer |-> PowerupTicks]),
                 !.shieldHits = IF type = "shield" THEN ShieldCharges ELSE @]

\* handlePowerupCollisions: pickups from last to first, the first living
\* player that touches one collects it; taken tells which player touches which
RECURSIVE handlePowerupCollisions(_, _, _)
handlePowerupCollisions(w, i, taken) ==
  IF i < 1 THEN w
  ELSE LET touchers == {id \in Ids(Len(w.players)) :
                           w.players[id + 1].alive /\ <<i, id>> \in taken}
       IN IF touchers = {}
          THEN handlePowerupCollisions(w, i - 1, taken)
          ELSE LET id == First(touchers)
               IN handlePowerupCollisions(
                    [w EXCEPT !.players[id + 1] = collectPowerup(@, w.powerups[i]),
                              !.powerups = Splice(@, i),
                              !.budget.pickups = @ - 1],
                    i - 1, taken)

\* the sum of a function to the naturals
RECURSIVE Total(_)
Total(f) ==
  IF DOMAIN f = {} THEN 0
  ELSE LET i == CHOOSE i \in DOMAIN f : TRUE
       IN f[i] + Total([j \in DOMAIN f \ {i} |-> f[j]])

\* a wall contact that sends the projectile out again
wallBounceOutbound(b) ==
  [b EXCEPT !.bounces = @ + 1, !.returning = FALSE, !.touched = TRUE]

\* the body of the test 'if (collision)': push out, reflect, count
wallBounce(b) ==
  LET n == b.bounces + 1
  IN [b EXCEPT !.bounces = n,
               !.returning = IF n >= b.maxBounces /\ ~b.returning THEN TRUE ELSE @,
               !.touched = TRUE]

\* a wall pass that does not skip the projectiles that penetrate
handleBoomerangWallCollisionsOfAll(w, walls) ==
  [w EXCEPT !.boomerangs =
     [i \in DOMAIN @ |-> IF walls[i] = 0 THEN @[i] ELSE wallBounce(@[i])],
            !.budget.contacts = @ - Total(walls)]

\* walls[i]: how many walls projectile i overlaps; a projectile with
\* canPenetrate is passed over before the walls are tested
handleBoomerangWallCollisions(w, walls) ==
  [w EXCEPT !.boomerangs =
     [i \in DOMAIN @ |-> IF walls[i] = 0 \/ @[i].canPenetrate
                          THEN @[i] ELSE wallBounce(@[i])],
            !.budget.contacts = @ - Total(walls)]

burnPlayer(w, id) ==
  [w EXCEPT !.players[id + 1].burning = TRUE,
            !.players[id + 1].burnTimer = BurnTicks,
            !.emitted = @ \cup {[type |-> "player:burn", victimId |-> id]}]

\* burnt: the pairs of a fire trail and a player that overlap
RECURSIVE handleFireTrailCollisions(_, _, _, _)
handleFireTrailCollisions(w, fi, id, burnt) ==
  IF fi > Len(w.fireTrails) THEN w
  ELSE IF id >= Len(w.players) THEN handleFireTrailCollisions(w, fi + 1, 0, burnt)
  ELSE LET p == w.players[id + 1]
           hit == /\ p.alive /\ p.playerId # w.fireTrails[fi].ownerId
                  /\ ~p.burning /\ <<fi, id>> \in burnt
       IN handleFireTrailCollisions(IF hit THEN burnPlayer(w, id) ELSE w, fi, id + 1, burnt)

\* despawned entities leave the world at the end of the pass
Remaining(s, gone) ==
  LET keep == {i \in DOMAIN s : i \notin gone}
      F[i \in 0 .. Len(s)] ==
        IF i = 0 THEN << >>
        ELSE IF i \in keep THEN Append(F[i - 1], s[i]) ELSE F[i - 1]
  IN F[Len(s)]

(* ------------------------------------------------------------------ *)
(* PlayerSystem (systems/PlayerSystem.ts)                             *)
(* ------------------------------------------------------------------ *)
\* getPlayerInput / getAIInput: the action button is held, has been released,
\* or neither; dash is pressed or not
Inputs == [action : {"idle", "hold", "release"}, dash : BOOLEAN]

\* lines 61-67: every powerup timer counts down, expired entries are spliced
tickPowerups(pw) ==
  LET F[i \in 0 .. Len(pw)] ==
        IF i = 0 THEN << >>
        ELSE IF pw[i].timer - 1 <= 0 THEN F[i - 1]
             ELSE Append(F[i - 1], [pw[i] EXCEPT !.timer = @ - 1])
  IN F[Len(pw)]

\* a throw that leaves the boomerang in the thrower's hand
throwKeepsHand(w, id) ==
  LET p == w.players[id + 1]
      b == createBoomerang(id, hasPowerup(p, "freeze"))
  IN IF ~p.hasBoomerang THEN w
     ELSE [w EXCEPT !.players[id + 1].catchCooldown = CatchCooldownTicks,
                    !.boomerangs = Append(@, b),
                    !.emitted = @ \cup {[type |-> "player:throw", playerId |-> id]},
                    !.budget.throws = @ - 1]

throwBoomerang(w, id) ==
  LET p == w.players[id + 1]
      isTriple == hasPowerup(p, "triple")
      b == [createBoomerang(id, hasPowerup(p, "freeze"))
              EXCEPT !.hasFire = hasPowerup(p, "fire"),
                     !.canPenetrate = hasPowerup(p, "penetrate"),
                     !.extendedRange = hasPowerup(p, "range")]
  IN IF ~p.hasBoomerang THEN w
     ELSE [w EXCEPT !.players[id + 1].hasBoomerang = FALSE,
                    !.players[id + 1].catchCooldown = CatchCooldownTicks,
                    !.boomerangs = IF isTriple THEN @ \o <<b, b, b>> ELSE Append(@, b),
                    !.emitted = @ \cup {[type |-> "player:throw", playerId |-> id]},
                    !.hist.tripleThrowers = IF isTriple THEN @ \cup {id} ELSE @,
                    !.budget.throws = @ - 1]

BurnDamage(id) == [type |-> "player:burnDamage", playerId |-> id]

\* the burn of a player who is not frozen (a frozen player's update has
\* returned before it); the listener of player:burnDamage in main.ts plays a
\* sound and shakes the screen
updateBurn(w, id) ==
  LET p == w.players[id + 1]
      t == p.burnTimer - 1
  IN IF p.frozen \/ ~p.burning THEN w
     ELSE IF t <= 0
     THEN [w EXCEPT !.players[id + 1].burnTimer = t,
                    !.players[id + 1].burning = FALSE]
     ELSE IF t % BurnDamageTicks = 0
     THEN [w EXCEPT !.players[id + 1].burnTimer = t,
                    !.emitted = @ \cup {BurnDamage(id)}]
     ELSE [w EXCEPT !.players[id + 1].burnTimer = t]

\* a dash that starts whenever the button is pressed
startDashAnyway(w, id, inp) ==
  IF ~inp.dash THEN w
  ELSE [w EXCEPT !.players[id + 1].dashing = TRUE,
                 !.players[id + 1].dashTimer = DashTicks,
                 !.players[id + 1].dashCooldown = DashCooldownTicks,
                 !.emitted = @ \cup {[type |-> "player:dash", playerId |-> id]},
                 !.budget.dashes = @ - 1]

\* lines 127-129 and startDash
startDash(w, id, inp) ==
  LET p == w.players[id + 1]
  IN IF ~(inp.dash /\ p.dashCooldown <= 0 /\ ~p.dashing /\ ~p.charging) THEN w
     ELSE [w EXCEPT !.players[id + 1].dashing = TRUE,
                    !.players[id + 1].dashTimer = DashTicks,
                    !.players[id + 1].dashCooldown = DashCooldownTicks,
                    !.emitted = @ \cup {[type |-> "player:dash", playerId |-> id]},
                    !.budget.dashes = @ - 1]

\* lines 131-137: the dash timer
updateDash(p) ==
  IF ~p.dashing THEN p
  ELSE [p EXCEPT !.dashTimer = @ - 1, !.dashing = ~(p.dashTimer - 1 <= 0)]

\* lines 161-165: the charge of a player who holds the action
charge(p, inp) ==
  IF p.hasBoomerang /\ ~p.dashing
  THEN IF inp.action = "hold"
       THEN [p EXCEPT !.charging = TRUE,
                      !.chargeTime = (IF ~p.charging THEN 0 ELSE @) + 1]
       ELSE p
  ELSE [p EXCEPT !.charging = FALSE, !.chargeTime = 0]

\* an update that goes on to the input of a player who is still frozen
returnsNever(p) == FALSE

\* lines 74-91: the update of a player whose frozenTimer has not run out
\* returns before the input is read
returnsFrozen(p) == p.frozen

\* updatePlayer past its first test: timers, freeze, dash, charge and throw,
\* physics
updateLiving(w, id, inp) ==
  LET p0 == w.players[id + 1]
      p1 == [p0 EXCEPT !.catchCooldown = IF @ > 0 THEN @ - 1 ELSE @,
                       !.dashCooldown = IF @ > 0 THEN @ - 1 ELSE @,
                       !.powerups = tickPowerups(@)]
      thawed == p1.frozen /\ p1.frozenTimer - 1 <= 0
      p2 == IF p1.frozen
            THEN [p1 EXCEPT !.frozenTimer = @ - 1, !.frozen = ~thawed]
            ELSE p1
      w2 == updateBurn([w EXCEPT !.players[id + 1] = p2, !.moved = @ \cup {id}], id)
  IN IF returnsFrozen(p2) THEN w2
     ELSE LET w3 == startDash(w2, id, inp)
              p3 == charge(updateDash(w3.players[id + 1]), inp)
              w4 == [w3 EXCEPT !.players[id + 1] = p3,
                               !.hist.integrated = @ \cup {id}]
          IN IF p3.hasBoomerang /\ ~p3.dashing /\ inp.action = "release" /\ p3.charging
             THEN [throwBoomerang(w4, id)
                     EXCEPT !.players[id + 1].charging = FALSE,
                            !.players[id + 1].chargeTime = 0]
             ELSE w4

\* an updatePlayer without the test that returns for a dead player
updatePlayerOfDead(w, id, inp) == updateLiving(w, id, inp)

updatePlayer(w, id, inp) ==
  IF ~w.players[id + 1].alive THEN w ELSE updateLiving(w, id, inp)

RECURSIVE updatePlayers(_, _, _)
updatePlayers(w, id, inp) ==
  IF id >= Len(w.players) THEN w
  ELSE updatePlayers(updatePlayer(w, id, inp[id]), id + 1, inp)

(* ------------------------------------------------------------------ *)
(* BoomerangSystem (systems/BoomerangSystem.ts)                       *)
(* ------------------------------------------------------------------ *)
\* a bounce that counts and never turns the projectile round
bounceUncapped(b) == [b EXCEPT !.bounces = @ + 1, !.touched = TRUE]

bounce(b) ==
  LET n == b.bounces + 1
  IN [b EXCEPT !.bounces = n,
               !.returning = IF n >= b.maxBounces /\ ~b.returning THEN TRUE ELSE @,
               !.touched = TRUE]

RECURSIVE bounces(_, _)
bounces(b, n) == IF n = 0 THEN b ELSE bounces(bounce(b), n - 1)

\* returnTimer > maxReturnTime, or > maxReturnTime * 1.8 with extended range
\* (in tenths of a tick)
PastReturnTime(b, t) ==
  IF b.extendedRange THEN t * 10 > MaxReturnTicks * 18 ELSE t > MaxReturnTicks

\* a returning branch that steers towards the owner dead or alive
SteersToAnyone(b, ps) == b.returning

\* the returning branch finds the owner alive and blends the velocity
\* towards them
Steers(b, ps) ==
  /\ b.returning
  /\ \E k \in DOMAIN ps : ps[k].playerId = b.ownerId /\ ps[k].alive

\* an update that turns the projectile round one tick late
updateBoomerangLate(b, ps, slow, edges) ==
  LET b1 == [b EXCEPT !.lifetime = @ + 1, !.touched = FALSE,
                      !.steered = Steers(b, ps)]
      b3 == IF b1.returning THEN b1
            ELSE LET b2 == [b1 EXCEPT !.returnTimer = @ + 1]
                 IN IF slow \/ PastReturnTime(b2, b2.returnTimer - 1)
                    THEN [b2 EXCEPT !.returning = TRUE]
                    ELSE b2
  IN bounces(b3, edges)

\* slow: the projectile's speed has fallen under minSpeed (8, or 5 with
\* extended range) this frame; edges: how many of the four boundary tests the
\* new position fails
updateBoomerang(b, ps, slow, edges) ==
  LET b1 == [b EXCEPT !.lifetime = @ + 1, !.touched = FALSE,
                      !.steered = Steers(b, ps)]
      b3 == IF b1.returning THEN b1
            ELSE LET b2 == [b1 EXCEPT !.returnTimer = @ + 1]
                 IN IF slow \/ PastReturnTime(b2, b2.returnTimer)
                    THEN [b2 EXCEPT !.returning = TRUE]
                    ELSE b2
  IN bounces(b3, edges)

\* a projectile with the fire pickup leaves a fire trail at every TrailTicks-th
\* update (trailTimer counts as lifetime does)
spawnFireTrails(bs) ==
  LET F[i \in 0 .. Len(bs)] ==
        IF i = 0 THEN << >>
        ELSE IF bs[i].hasFire /\ (bs[i].lifetime + 1) % TrailTicks = 0
             THEN Append(F[i - 1], createFireTrail(bs[i].ownerId))
             ELSE F[i - 1]
  IN F[Len(bs)]

\* life--, and the trails whose life is over are despawned
updateFireTrails(ts) ==
  LET F[i \in 0 .. Len(ts)] ==
        IF i = 0 THEN << >>
        ELSE IF ts[i].life - 1 <= 0 THEN F[i - 1]
             ELSE Append(F[i - 1], [ts[i] EXCEPT !.life = @ - 1])
  IN F[Len(ts)]

\* expired projectiles go back to their owner's hand and are despawned
\* a cleanup that hands the boomerang back to a dead owner as well
cleanupBoomerangsToDead(w) ==
  LET old == {i \in DOMAIN w.boomerangs : w.boomerangs[i].lifetime > MaxLifetimeTicks}
      back == {w.boomerangs[i].ownerId : i \in old}
  IN [w EXCEPT !.players = [i \in DOMAIN w.players |->
                  IF (i - 1) \in back /\ ~w.players[i].hasBoomerang
                  THEN [w.players[i] EXCEPT !.hasBoomerang = TRUE]
                  ELSE w.players[i]],
               !.boomerangs = Remaining(w.boomerangs, old)]

cleanupBoomerangs(w) ==
  LET old == {i \in DOMAIN w.boomerangs : w.boomerangs[i].lifetime > MaxLifetimeTicks}
      back == {w.boomerangs[i].ownerId : i \in old}
  IN [w EXCEPT !.players = [i \in DOMAIN w.players |->
                  IF (i - 1) \in back /\ w.players[i].alive /\ ~w.players[i].hasBoomerang
                  THEN [w.players[i] EXCEPT !.hasBoomerang = TRUE]
                  ELSE w.players[i]],
               !.boomerangs = Remaining(w.boomerangs, old)]

(* ------------------------------------------------------------------ *)
(* TerrainSystem (systems/TerrainSystem.ts)                           *)
(* ------------------------------------------------------------------ *)
killPlayerInWater(w, id) ==
  [w EXCEPT !.players[id + 1].alive = FALSE,
            !.emitted = @ \cup {DeathEvent(id, -1)}]

RECURSIVE handleTerrainEffects(_, _, _)
handleTerrainEffects(w, id, inWater) ==
  IF id >= Len(w.players) THEN w
  ELSE IF w.players[id + 1].alive /\ id \in inWater
       THEN handleTerrainEffects(killPlayerInWater(w, id), id + 1, inWater)
       ELSE handleTerrainEffects(w, id + 1, inWater)

(* ------------------------------------------------------------------ *)
(* GameScene (scenes/GameScene.ts)                                    *)
(* ------------------------------------------------------------------ *)
\* stateTimer--; only its sign is read, so it stops at zero
Dec(t) == Max(t - 1, 0)

Scores(gs) == [i \in DOMAIN gs.playerScores |-> gs.playerScores[i].score]

\* a startRound that initialises the scores in every round
startRoundAnew(w) ==
  LET playerCount == GameSettings.playerCount
      g2 == [initPlayerScores(w.gs, playerCount) EXCEPT
               !.roundNumber = w.gs.roundNumber,
               !.state = "ready",
               !.stateTimer = ReadyTicks,
               !.powerupSpawnTimer = SpawnDelayTicks]
  IN [w EXCEPT !.gs = g2,
               !.players = [i \in 1 .. playerCount |-> createPlayer(i - 1)],
               !.boomerangs = << >>,
               !.powerups = << >>,
               !.hist.roundStartScores = Scores(g2),
               !.hist.endRoundCalls = 0,
               !.hist.tripleThrowers = {},
               !.hist.drawn = FALSE,
               !.hist.confirmed = FALSE]

startRound(w) ==
  LET playerCount == GameSettings.playerCount
      g1 == IF w.gs.roundNumber = 1 \/ Len(w.gs.playerScores) # playerCount
            THEN initPlayerScores(w.gs, playerCount)
            ELSE w.gs
      g2 == [g1 EXCEPT !.state = "ready",
                       !.stateTimer = ReadyTicks,
                       !.powerupSpawnTimer = SpawnDelayTicks]
  IN [w EXCEPT !.gs = g2,
               !.players = [i \in 1 .. playerCount |-> createPlayer(i - 1)],
               !.boomerangs = << >>,
               !.fireTrails = << >>,
               !.powerups = << >>,
               !.hist.roundStartScores = Scores(g2),
               !.hist.endRoundCalls = 0,
               !.hist.tripleThrowers = {},
               !.hist.drawn = FALSE,
               !.hist.confirmed = FALSE]

updateReady(w) ==
  LET t == Dec(w.gs.stateTimer)
  IN [w EXCEPT !.gs.stateTimer = t,
               !.gs.state = IF t <= 0 THEN "fight" ELSE @]

\* spawnPowerup draws the pickup's type at random: budget.draws holds the
\* draws of this run.  Pickups spawned after them are never touched, and are
\* left out of the world.
spawnPowerup(w) ==
  IF w.budget.draws = << >> THEN w
  ELSE [w EXCEPT !.powerups = Append(@, Head(w.budget.draws)),
                 !.budget.draws = Tail(@)]

updateFight(w) ==
  LET t == w.gs.powerupSpawnTimer - 1
      w1 == IF t <= 0
            THEN [spawnPowerup(w) EXCEPT !.gs.powerupSpawnTimer = RespawnTicks]
            ELSE [w EXCEPT !.gs.powerupSpawnTimer = t]
  IN [w1 EXCEPT !.gs = recordReplayFrame(@)]

updateKO(w) ==
  LET g1 == recordReplayFrame([w.gs EXCEPT !.stateTimer = Dec(@)])
  IN [w EXCEPT !.gs = IF g1.stateTimer <= 0 /\ g1.state = "ko"
                      THEN [g1 EXCEPT !.state = "roundEnd", !.stateTimer = RoundEndTicks]
                      ELSE g1]

endMatch(w) ==
  [w EXCEPT !.gs.state = "win",
            !.menu.winMenuIndex = 0,
            !.menu.cooldown = WinCooldownTicks]

\* pressed: the winner's confirm button went down this frame
updateRoundEnd(w, pressed) ==
  LET g1 == [w.gs EXCEPT !.stateTimer = Dec(@)]
      g2 == IF ~g1.replayPlaying /\ g1.replayLen > 0 THEN startReplay(g1) ELSE g1
      g3 == advanceReplay(g2)
      replayFinished == g2.replayPlaying /\ g3.replayPlaybackIndex < g2.replayPlaybackIndex
      winnerId == g3.roundWinner
      winnerGpIndex == GamepadOf(winnerId)
      winnerIsAI == winnerId >= 0 /\ winnerGpIndex = CPU
      winnerConfirm == winnerId >= 0 /\ (winnerGpIndex = KEYBOARD \/ winnerGpIndex >= 0) /\ pressed
      g4 == IF winnerIsAI /\ replayFinished /\ ~g3.winnerConfirmed
            THEN [g3 EXCEPT !.winnerConfirmed = TRUE, !.stateTimer = Min(@, AIConfirmTicks)]
            ELSE g3
      g5 == IF winnerConfirm /\ ~g4.winnerConfirmed
            THEN [g4 EXCEPT !.winnerConfirmed = TRUE, !.stateTimer = Min(@, ConfirmTicks)]
            ELSE g4
      w5 == [w EXCEPT !.gs = g5,
                      !.hist.confirmed = @ \/ (g5.winnerConfirmed /\ ~g3.winnerConfirmed)]
      w6 == [w5 EXCEPT !.hist.winners =
               Append(@, [winner |-> winnerId, confirmed |-> w5.hist.confirmed])]
  IN IF g5.stateTimer <= 0 /\ g5.winnerConfirmed
     THEN IF checkGameWinner(g5, GameSettings.winScore) >= 0
          THEN endMatch(w6)
          ELSE startRound([w6 EXCEPT !.gs = resetRound(g5), !.budget.rounds = @ - 1])
     ELSE w5

\* handleWinAction('rematch')
rematch(w) ==
  startRound([w EXCEPT !.gs = resetMatch(@), !.budget.matches = @ - 1,
                       !.hist.winners = << >>])

\* a call of handleWinAction or handlePauseAction, kept with the events of
\* the step
MenuAction(action) == [type |-> "menu:action", action |-> action]

\* engine.goto('menu'): the scene is left
gotoMenu(w) == [w EXCEPT !.left = TRUE]

\* resume that always goes on with the fight
togglePauseToFight(w) ==
  IF w.gs.state # "pause"
  THEN [w EXCEPT !.menu.stateBeforePause = w.gs.state,
                 !.gs.state = "pause",
                 !.gs.paused = TRUE,
                 !.menu.pauseMenuIndex = 0]
  ELSE [w EXCEPT !.gs.state = "fight",
                 !.gs.paused = FALSE]


togglePause(w) ==
  IF w.gs.state # "pause"
  THEN [w EXCEPT !.menu.stateBeforePause = w.gs.state,
                 !.gs.state = "pause",
                 !.gs.paused = TRUE,
                 !.menu.pauseMenuIndex = 0]
  ELSE [w EXCEPT !.gs.state = w.menu.stateBeforePause,
                 !.gs.paused = FALSE]

PauseActions == <<"resume", "fullscreen", "screenshot", "restart", "mainmenu">>

\* 'restart' starts the match again; 'fullscreen' and 'screenshot' leave the
\* game as it is
handlePauseAction(w, action) ==
  LET w1 == [w EXCEPT !.emitted = @ \cup {MenuAction(action)}]
  IN CASE action = "resume" -> togglePause(w1)
       [] action = "restart" ->
            startRound([w1 EXCEPT !.gs = [resetMatch(@) EXCEPT !.paused = FALSE],
                                  !.hist.winners = << >>])
       [] action = "mainmenu" -> gotoMenu([w1 EXCEPT !.gs.paused = FALSE])
       [] OTHER -> w1

\* pause: the pause key is pressed
updatePause(w, moveY, confirm, pause) ==
  IF w.menu.cooldown > 0
  THEN [w EXCEPT !.menu.cooldown = @ - 1]
  ELSE LET w1 == IF moveY # 0
                 THEN [w EXCEPT !.menu.pauseMenuIndex =
                                  (@ + moveY + Len(PauseActions)) % Len(PauseActions),
                                !.menu.cooldown = MoveCooldownTicks]
                 ELSE w
       IN IF confirm \/ pause
          THEN [handlePauseAction(w1, PauseActions[w1.menu.pauseMenuIndex + 1])
                  EXCEPT !.menu.cooldown = ActionCooldownTicks]
          ELSE w1

WinActions == <<"rematch", "mainmenu">>

handleWinAction(w, action) ==
  LET w1 == [w EXCEPT !.emitted = @ \cup {MenuAction(action)}]
  IN IF action = "rematch" THEN rematch(w1) ELSE gotoMenu(w1)

\* moveY: the stick is up (-1), down (1) or at rest; confirm: action released
updateWin(w, moveY, confirm) ==
  IF w.menu.cooldown > 0
  THEN [w EXCEPT !.menu.cooldown = @ - 1]
  ELSE LET w1 == IF moveY # 0
                 THEN [w EXCEPT !.menu.winMenuIndex = (@ + moveY + 2) % 2,
                                !.menu.cooldown = MoveCooldownTicks]
                 ELSE w
       IN IF confirm
          THEN [handleWinAction(w1, WinActions[w1.menu.winMenuIndex + 1])
                  EXCEPT !.menu.cooldown = ActionCooldownTicks]
          ELSE w1

(* ------------------------------------------------------------------ *)
(* The frame                                                          *)
(* ------------------------------------------------------------------ *)
World ==
  [gs |-> GameState, players |-> players, boomerangs |-> boomerangs,
   fireTrails |-> fireTrails, powerups |-> powerups, despawned |-> {}, timers |-> timers,
   emitted |-> {}, moved |-> {}, menu |-> menu, left |-> FALSE,
   hist |-> [hist EXCEPT !.catchable = {}, !.integrated = {}, !.uncatchable = {}], budget |-> budget]

\* The systems in priority order, then the scene.  A system whose onUpdate
\* returns at its state test is passed over.
Order == <<"player", "terrain", "boomerang", "collision", "scene">>

Runs(step, state) ==
  CASE step \in {"player", "terrain"} -> state \in {"fight", "tutorial"}
    [] step \in {"boomerang", "collision"} -> state \in {"fight", "tutorial", "ko"}
    [] OTHER -> TRUE

Pos(step) == CHOOSE i \in 1 .. 5 : Order[i] = step

FirstStep(state) == Order[First({i \in 1 .. 5 : Runs(Order[i], state)})]

\* the step that runs after step, in this frame or at the start of the next
After(step, state) ==
  LET later == {i \in 1 .. 5 : i > Pos(step) /\ Runs(Order[i], state)}
  IN IF later = {} THEN FirstStep(state) ELSE Order[First(later)]

AtFrameStart == pc = FirstStep(GameState.state)

\* frames go on while at most MaxPending callbacks are pending
FrameGoes == AtFrameStart => timers <= MaxPending

Commit(w, step) ==
  /\ FrameGoes
  /\ GameState' = w.gs
  /\ players' = w.players
  /\ boomerangs' = w.boomerangs
  /\ fireTrails' = w.fireTrails
  /\ powerups' = w.powerups
  /\ timers' = w.timers
  /\ emitted' = w.emitted
  /\ moved' = w.moved
  /\ menu' = w.menu
  /\ scene' = IF w.left THEN "menu" ELSE scene
  /\ hist' = w.hist
  /\ budget' = w.budget
  /\ w.budget.throws >= 0 /\ w.budget.pickups >= 0
  /\ w.budget.rounds >= 0 /\ w.budget.matches >= 0 /\ w.budget.pauses >= 0
  /\ w.budget.contacts >= 0 /\ w.budget.dashes >= 0
  /\ \A i \in DOMAIN w.players : w.players[i].chargeTime <= w.budget.hold
  /\ pc' = After(step, w.gs.state)
  /\ UNCHANGED <<GameSettings, hasWater, replay>>

Living == {id \in Ids(Len(players)) : players[id + 1].alive}

\* PlayerSystem.onUpdate
PlayerStep ==
  /\ pc = "player"
  /\ \E inp \in [Ids(Len(players)) -> {i \in Inputs : i.dash => budget.dashes > 0}] :
       Commit(updatePlayers(World, 0, inp), "player")

\* TerrainSystem.onUpdate
TerrainStep ==
  /\ pc = "terrain"
  /\ \E inWater \in SUBSET (IF hasWater THEN Ids(Len(players)) ELSE {}) :
       Commit(handleTerrainEffects(World, 0, inWater), "terrain")

\* BoomerangSystem.onUpdate
\* the contacts that the geometry of a frame may give the projectiles of bs
Contacts(bs, most) == [DOMAIN bs -> 0 .. Min(most, budget.contacts)]

BoomerangStep ==
  /\ pc = "boomerang"
  /\ \E slow \in SUBSET {i \in DOMAIN boomerangs : ~boomerangs[i].returning},
        edges \in Contacts(boomerangs, 2) :
       LET w1 == [World EXCEPT !.boomerangs =
                    [i \in DOMAIN boomerangs |->
                       updateBoomerang(boomerangs[i], players, i \in slow, edges[i])],
                               !.fireTrails = updateFireTrails(@) \o spawnFireTrails(boomerangs),
                               !.budget.contacts = @ - Total(edges)]
       IN Commit(cleanupBoomerangs(w1), "boomerang")

\* CollisionSystem.onUpdate
CollisionStep ==
  /\ pc = "collision"
  /\ \E touching \in SUBSET {pr \in SUBSET Ids(Len(players)) : Cardinality(pr) = 2},
        overlap \in SUBSET ((DOMAIN boomerangs) \X Ids(Len(players))),
        walls \in Contacts(boomerangs, 1),
        taken \in SUBSET ((DOMAIN powerups) \X Living),
        burnt \in SUBSET ((DOMAIN fireTrails) \X Living) :
       LET w0 == [World EXCEPT !.boomerangs =
                    [i \in DOMAIN @ |-> [@[i] EXCEPT !.touched = FALSE]]]
           w1 == handlePlayerPlayerCollisions(w0, touching)
           w2 == handleBoomerangPlayerCollisions(w1, Len(boomerangs), overlap)
           w2a == handleBoomerangWallCollisions(w2, walls)
           w3 == [w2a EXCEPT !.boomerangs = Remaining(@, w2.despawned)]
           w3a == handlePowerupCollisions(w3, Len(powerups), taken)
           w4 == handleFireTrailCollisions(w3a, 1, 0, burnt)
           allDied == Cardinality(Living) >= 2 /\ AliveIds(w4.players) = {}
           catchable == {id \in Living : \E bi \in DOMAIN boomerangs :
                           /\ <<bi, id>> \in overlap
                           /\ boomerangs[bi].ownerId = id
                           /\ boomerangs[bi].returning
                           /\ players[id + 1].catchCooldown <= 0}
           last == Len(boomerangs)
           uncatchable == {id \in Living :
                             /\ last > 0
                             /\ {pr \in overlap : pr[1] = last} = {<<last, id>>}
                             /\ boomerangs[last].ownerId = id
                             /\ boomerangs[last].returning
                             /\ boomerangs[last].lifetime > FreshTicks
                             /\ players[id + 1].catchCooldown > 0}
       IN Commit([w4 EXCEPT !.hist.drawn = @ \/ allDied,
                            !.hist.catchable = catchable,
                            !.hist.uncatchable = uncatchable], "collision")

\* GameScene.onUpdate, one action per state of the switch
UpdateReady ==
  /\ pc = "scene" /\ scene = "game" /\ GameState.state = "ready"
  /\ Commit(updateReady(World), "scene")

UpdateFight ==
  /\ pc = "scene" /\ scene = "game" /\ GameState.state = "fight"
  /\ Commit(updateFight(World), "scene")

UpdateKO ==
  /\ pc = "scene" /\ scene = "game" /\ GameState.state = "ko"
  /\ Commit(updateKO(World), "scene")

UpdateRoundEnd ==
  /\ pc = "scene" /\ scene = "game" /\ GameState.state = "roundEnd"
  /\ \E pressed \in BOOLEAN : Commit(updateRoundEnd(World, pressed), "scene")

PausableStates == {"fight", "ko", "roundEnd", "ready", "tutorial"}

\* onUpdate with the pause key pressed in a pausable state: togglePause, and
\* the switch then runs the case of the new state, updatePause, in which the
\* key is still pressed
PausePress ==
  /\ pc = "scene" /\ scene = "game" /\ GameState.state \in PausableStates
  /\ \E moveY \in {-1, 0, 1}, confirm \in BOOLEAN :
       Commit(updatePause([togglePause(World) EXCEPT
                             !.budget.pauses = @ - 1,
                             !.hist.pausedFrom = GameState.state],
                          moveY, confirm, TRUE), "scene")

UpdatePause ==
  /\ pc = "scene" /\ scene = "game" /\ GameState.state = "pause"
  /\ \E moveY \in {-1, 0, 1}, confirm \in BOOLEAN, pause \in BOOLEAN :
       Commit(updatePause(World, moveY, confirm, pause), "scene")

UpdateWin ==
  /\ pc = "scene" /\ scene = "game" /\ GameState.state = "win"
  /\ \E moveY \in {-1, 0, 1}, confirm \in BOOLEAN :
       Commit(updateWin(World, moveY, confirm), "scene")

\* DebugScene.onUpdate with no debug control pressed
DebugUpdate ==
  /\ pc = "scene" /\ scene = "debug"
  /\ Commit(World, "scene")

\* the setTimeout callback of triggerRoundEnd, run between two frames
RoundEndTimeout ==
  /\ AtFrameStart
  /\ timers > 0
  /\ GameState' = [GameState EXCEPT !.state = "roundEnd", !.stateTimer = RoundEndTicks]
  /\ timers' = timers - 1
  /\ pc' = FirstStep("roundEnd")
  /\ emitted' = {}
  /\ moved' = {}
  /\ UNCHANGED <<scene, GameSettings, players, boomerangs, fireTrails, powerups,
                 hasWater, replay, menu, hist, budget>>

(* ------------------------------------------------------------------ *)
(* Initial states                                                     *)
(* ------------------------------------------------------------------ *)
Solo(gp) == [gamepadIndex |-> gp, teamIndex |-> -1]
Member(gp, team) == [gamepadIndex |-> gp, teamIndex |-> team]

Duel == <<Solo(KEYBOARD), Solo(CPU)>>
Trio == <<Solo(KEYBOARD), Solo(CPU), Solo(CPU)>>
TwoVsOne == <<Member(KEYBOARD, 0), Member(CPU, 0), Member(CPU, 1)>>
TeamAndSolo == <<Member(KEYBOARD, 0), Member(CPU, 0), Solo(CPU)>>

\* the GameState object literal
GameState0 ==
  [state |-> "title", stateTimer |-> 0, hitstop |-> 0, roundWinner |-> -1,
   roundWinnerTeam |-> -1, roundNumber |-> 1, winnerConfirmed |-> FALSE,
   playerScores |-> << >>, previousScores |-> << >>, replayLen |-> 0,
   replayPlaybackIndex |-> 0, replayPlaying |-> FALSE, powerupSpawnTimer |-> 0,
   paused |-> FALSE]

\* catchable: the living players that the last CollisionSystem pass found
\* overlapping a returning projectile of their own with catchCooldown <= 0.
\* since startRound: the scores then, the calls of endRound, who threw a
\* triple, whether one CollisionSystem pass killed everybody still alive,
\* whether updateRoundEnd has taken a confirmation; since resetMatch: for every
\* round that updateRoundEnd has left, its roundWinner and whether it had been
\* confirmed
Hist0 ==
  [roundStartScores |-> << >>, endRoundCalls |-> 0, tripleThrowers |-> {},
   drawn |-> FALSE, confirmed |-> FALSE, winners |-> << >>,
   pausedFrom |-> "none", catchable |-> {}, integrated |-> {}, uncatchable |-> {}]

\* the field initialisers of GameScene
Menu0 == [cooldown |-> 0, pauseMenuIndex |-> 0, winMenuIndex |-> 0,
          stateBeforePause |-> "fight"]

\* throws and collected pickups, the random draws of spawnPowerup, new
\* rounds and rematches that a run may still take
Budget(throws, draws, pickups, rounds, matches) ==
  [throws |-> throws, draws |-> draws, pickups |-> pickups, rounds |-> rounds,
   matches |-> matches, pauses |-> 0, contacts |-> 0, dashes |-> 0, hold |-> 1]

\* GameScene.onEnter: resetMatch, then startRound
InitScene(cfg, winScore, b) ==
  /\ scene = "game"
  /\ pc = FirstStep("ready")
  /\ GameSettings = [playerCount |-> Len(cfg), players |-> cfg, winScore |-> winScore]
  /\ hasWater = FALSE
  /\ LET w0 == [gs |-> resetMatch(GameState0), players |-> << >>, boomerangs |-> << >>,
                fireTrails |-> << >>, powerups |-> << >>, despawned |-> {},
                timers |-> 0, emitted |-> {},
                moved |-> {}, menu |-> Menu0, left |-> FALSE, hist |-> Hist0,
                budget |-> b]
         playerCount == Len(cfg)
         g1 == initPlayerScores(w0.gs, playerCount)
         g2 == [g1 EXCEPT !.state = "ready", !.stateTimer = ReadyTicks,
                          !.powerupSpawnTimer = SpawnDelayTicks]
     IN /\ GameState = g2
        /\ players = [i \in 1 .. playerCount |-> createPlayer(i - 1)]
        /\ boomerangs = << >>
        /\ fireTrails = << >>
        /\ powerups = << >>
        /\ timers = 0
        /\ emitted = {}
        /\ moved = {}
        /\ menu = Menu0
        /\ hist = [w0.hist EXCEPT !.roundStartScores = Scores(g2)]
        /\ budget = b

InitGame(cfg, winScore, b) ==
  /\ InitScene(cfg, winScore, b)
  /\ replay = Replay0(ReplaySpeed)

\* DebugScene.onEnter: one keyboard player, every pickup on display, water.
\* GameState and GameSettings keep what the last GameScene left in them: cfg
\* is the set-up of a match left through the pause menu in its first round,
\* or empty when no match was played.
InitDebug(cfg, b) ==
  /\ scene = "debug"
  /\ pc = FirstStep("fight")
  /\ GameSettings = [playerCount |-> Max(Len(cfg), 2), players |-> cfg,
                     winScore |-> DefaultWinScore]
  /\ hasWater = TRUE
  /\ GameState = [GameState0 EXCEPT !.state = "fight",
                                    !.playerScores = [i \in DOMAIN cfg |-> NewScore(i - 1)]]
  /\ players = <<createPlayer(0)>>
  /\ boomerangs = << >>
  /\ fireTrails = << >>
  /\ powerups = <<"triple", "shield", "freeze">>
  /\ timers = 0
  /\ emitted = {}
  /\ moved = {}
  /\ replay = Replay0(ReplaySpeed)
  /\ menu = Menu0
  /\ hist = Hist0
  /\ budget = b

\* one round of a duel to one point, or the debug scene
Init ==
  \/ InitGame(Duel, 1, Budget(MaxThrows, << >>, 0, 0, 0))
  \/ \E cfg \in {<< >>, Duel} : InitDebug(cfg, Budget(MaxThrows, << >>, 0, 0, 0))

Next ==
  \/ PlayerStep
  \/ TerrainStep
  \/ BoomerangStep
  \/ CollisionStep
  \/ UpdateReady
  \/ UpdateFight
  \/ UpdateKO
  \/ UpdateRoundEnd
  \/ UpdateWin
  \/ DebugUpdate
  \/ RoundEndTimeout

Spec == Init /\ [][Next]_vars

\* GameScene alone
NextGame ==
  \/ PlayerStep
  \/ TerrainStep
  \/ BoomerangStep
  \/ CollisionStep
  \/ UpdateReady
  \/ UpdateFight
  \/ UpdateKO
  \/ UpdateRoundEnd
  \/ UpdateWin
  \/ RoundEndTimeout

(* ------------------------------------------------------------------ *)
(* One round of a duel in which spawnPowerup draws one pickup         *)
(* ------------------------------------------------------------------ *)
InitPickup ==
  \E type \in PowerupTypes :
    InitGame(Duel, 1, Budget(PickupThrows, <<type>>, 1, 0, 0))

SpecPickup == InitPickup /\ [][NextGame]_vars

(* ------------------------------------------------------------------ *)
(* One round with three players: all against all, or two against one  *)
(* ------------------------------------------------------------------ *)
InitParty ==
  \E cfg \in {Trio, TwoVsOne} :
    InitGame(cfg, 1, Budget(PartyThrows, << >>, 0, 0, 0))

SpecParty == InitParty /\ [][NextGame]_vars

(* ------------------------------------------------------------------ *)
(* One round of three players in team mode: two teams, or a team and   *)
(* an unaffiliated player                                              *)
(* ------------------------------------------------------------------ *)
InitTeams ==
  \E cfg \in {TwoVsOne, TeamAndSolo} :
    InitGame(cfg, 1, Budget(TeamThrows, << >>, 0, 0, 0))

SpecTeams == InitTeams /\ [][NextGame]_vars

(* ------------------------------------------------------------------ *)
(* A duel to one point, and the rematch after it                      *)
(* ------------------------------------------------------------------ *)
InitRematch == InitGame(Duel, 1, Budget(RematchThrows, << >>, 0, 0, 1))

SpecRematch == InitRematch /\ [][NextGame]_vars

(* ------------------------------------------------------------------ *)
(* A duel to three points                                             *)
(* ------------------------------------------------------------------ *)
InitMatch == InitGame(Duel, 3, Budget(MatchThrows, << >>, 0, MatchRounds, 0))

SpecMatch == InitMatch /\ [][NextGame]_vars

(* ------------------------------------------------------------------ *)
(* Properties                                                         *)
(* ------------------------------------------------------------------ *)
Owned(id) == Cardinality({i \in DOMAIN boomerangs : boomerangs[i].ownerId = id})

Caught(id) == [type |-> "player:catch", playerId |-> id] \in emitted

KillStep(a, b) ==
  /\ pc = "collision" /\ scene = "game"
  /\ a # b /\ Living = {a, b} /\ Len(players) = 2
  /\ players'[a + 1].alive /\ ~players'[b + 1].alive

\* C2: in a two-player round, when A kills B and nobody else dies in that
\* tick, the state becomes ko with roundWinner = A, A's score one above its
\* value at the start of the round and B's unchanged; ko is left only for
\* roundEnd, every GameScene update in ko counts the ko timer down or enters
\* roundEnd, and roundEnd is entered with the winner and the scores unchanged.
C2_KillDecidesRound ==
  [][/\ \A a, b \in Ids(Len(players)) :
          KillStep(a, b) =>
            /\ GameState'.state = "ko"
            /\ GameState'.roundWinner = a
            /\ Scores(GameState') = [hist.roundStartScores EXCEPT ![a + 1] = @ + 1]
     /\ GameState.state = "ko" =>
          /\ GameState'.state \in {"ko", "roundEnd"}
          /\ (pc = "scene" /\ scene = "game") =>
               \/ GameState'.state = "roundEnd"
               \/ GameState'.stateTimer < GameState.stateTimer
          /\ GameState'.state = "roundEnd" =>
               /\ GameState'.roundWinner = GameState.roundWinner
               /\ Scores(GameState') = Scores(GameState)]_vars

\* player 0 has killed player 1 and the round has gone through ko to roundEnd
C2_Witness ==
  /\ scene = "game" /\ GameState.state = "roundEnd"
  /\ Living = {0}
  /\ GameState.roundWinner = 0
  /\ Scores(GameState) = <<1, 0>>
  /\ GameState.playerScores[1].kills = 1

\* C3 as stated: when all the players still alive die in one CollisionSystem
\* pass, the round is a draw: roundWinner is -1 and no score changes.
C3_MutualKillIsDraw ==
  [][(/\ pc = "collision" /\ scene = "game"
      /\ Cardinality(Living) >= 2
      /\ \A id \in Living : ~players'[id + 1].alive)
     => /\ GameState'.roundWinner = -1
        /\ Scores(GameState') = Scores(GameState)]_vars

RECURSIVE Sum(_)
Sum(s) == IF s = << >> THEN 0 ELSE Head(s) + Sum(Tail(s))

Dead == Ids(Len(players)) \ Living

\* C5: a player who is dead when a step starts is left alone by it:
\* PlayerSystem changes nothing of them, no step writes their position or
\* velocity (so they take no part in player-player separation), and the
\* round-end evaluation does not count them: they are never named the winner,
\* and a pass in which somebody dies and that leaves at most one player alive
\* ends the round.
C5_DeadPlayersAreInert ==
  [][/\ \A id \in Dead :
          /\ id \notin moved'
          /\ pc = "player" => players'[id + 1] = players[id + 1]
          /\ hist'.endRoundCalls > hist.endRoundCalls => GameState'.roundWinner # id
     /\ (/\ pc = "collision"
         /\ \E id \in Living : ~players'[id + 1].alive
         /\ Cardinality({id \in Living : players'[id + 1].alive}) <= 1)
        => GameState'.state = "ko"]_vars

\* two of three players are alive in a fight and have just been pushed apart
\* by CollisionSystem while the third lies dead
C5_Witness ==
  /\ Len(players) = 3 /\ Cardinality(Living) = 2
  /\ GameState.state = "fight" /\ pc = "scene"
  /\ moved = Living

Bounced(id) == [type |-> "boomerang:bounce", playerId |-> id] \in emitted

\* C6 as stated: a player holding shield charges survives every lethal hit
\* while charges are left, each blocked hit reflecting the projectile and
\* taking a charge, and is killable only by the hit after the last charge:
\* a CollisionSystem pass kills no player who has charges left at its end, and
\* charges go down only in a pass that reflects a projectile off the player.
C6_ShieldChargesProtect ==
  [][pc = "collision" =>
       \A id \in Living :
         /\ ~players'[id + 1].alive => players'[id + 1].shieldHits <= 0
         /\ players'[id + 1].shieldHits < players[id + 1].shieldHits =>
              [type |-> "boomerang:bounce", playerId |-> id] \in emitted']_vars

\* a player with all the charges of a fresh shield has just had a projectile
\* reflected and has one charge less
C6_Witness ==
  \E id \in Living :
    /\ Bounced(id)
    /\ players[id + 1].shieldHits = ShieldCharges - 1
    /\ hasPowerup(players[id + 1], "shield")

Died == {id \in Living : ~players'[id + 1].alive}

DeathsOf(gs, id) == gs.playerScores[id + 1].deaths
KillsOf(gs, id) == gs.playerScores[id + 1].kills

\* C7 as stated: every death, by projectile or by terrain hazard, marks the
\* victim not alive (in the entity and in GameState's score entry), adds one
\* to the victim's deaths, adds to the killer's kills unless it is a self-kill,
\* emits player:death, and evaluates the round end: a step that kills and
\* leaves at most one player alive ends the round.
C7_EveryDeathIsResolved ==
  [][\A id \in Died :
       /\ \E e \in emitted' : e.type = "player:death" /\ e.victimId = id
       /\ HasScore(GameState, id) =>
            /\ ~GameState'.playerScores[id + 1].isAlive
            /\ DeathsOf(GameState', id) = DeathsOf(GameState, id) + 1
       /\ \A e \in emitted' :
            (e.type = "player:death" /\ e.victimId = id /\ HasScore(GameState, e.killerId))
              => KillsOf(GameState', e.killerId) > KillsOf(GameState, e.killerId)
       /\ Cardinality(Living \ Died) <= 1 => GameState'.state = "ko"]_vars

\* C8 as stated: a round in which one CollisionSystem pass killed everybody
\* still alive is a draw, and goes on like any other round: in roundEnd its
\* roundWinner is -1 and the scores are those of the start of the round, and
\* roundEnd is left only for a new round or for win, the scores still unchanged.
C8_DrawRoundAdvances ==
  [][(scene = "game" /\ hist.drawn /\ GameState.state = "roundEnd") =>
       /\ GameState.roundWinner = -1
       /\ Scores(GameState) = hist.roundStartScores
       /\ GameState'.state \in {"roundEnd", "ready", "win"}
       /\ Scores(GameState') = hist.roundStartScores]_vars

\* C9 as stated: roundEnd is left, for a new round or for win, only when the
\* winner of the round has confirmed in that round (by their own input, or
\* automatically for an AI winner) and the roundEnd timer has run out, in
\* every round of every match.
C9_AdvanceNeedsConfirmation ==
  [][(scene = "game" /\ GameState.state = "roundEnd" /\ GameState'.state # "roundEnd") =>
       /\ GameState.stateTimer <= 1
       /\ hist'.winners # << >>
       /\ hist'.winners[Len(hist'.winners)].confirmed]_vars

WinnerIds == [i \in DOMAIN hist.winners |-> hist.winners[i].winner]

\* C10: in a two-player match to three points, when P0 has won rounds 1, 2
\* and 3, the update that leaves round 3's roundEnd (its confirmation given
\* and its timer run out) enters win with P0 the match winner, P0's score 3 and
\* P1's score 0; and the scores are carried from round to round: an update
\* that leaves roundEnd for a new round leaves every score as it was.
C10_ThreeWinsTakeTheMatch ==
  [][(scene = "game" /\ GameSettings.winScore = 3 /\ Len(players) = 2) =>
       /\ (hist'.winners # hist.winners /\ WinnerIds' = <<0, 0, 0>>) =>
            /\ GameState.state = "roundEnd"
            /\ hist'.winners[3].confirmed
            /\ GameState.stateTimer <= 1
            /\ GameState'.state = "win"
            /\ Scores(GameState') = <<3, 0>>
            /\ checkGameWinner(GameState', GameSettings.winScore) = 0
       /\ (GameState.state = "roundEnd" /\ GameState'.state = "ready") =>
            Scores(GameState') = Scores(GameState)]_vars

\* P0 has won three rounds in a row and the match is in win
C10_Witness ==
  /\ scene = "game" /\ GameState.state = "win"
  /\ GameSettings.winScore = 3
  /\ WinnerIds = <<0, 0, 0>>
  /\ Scores(GameState) = <<3, 0>>

\* a duel to one point with a shield pickup, in which projectiles meet walls
\* and the arena boundary
InitBounce ==
  InitGame(Duel, 1, [Budget(BounceThrows, <<"shield">>, 1, 0, 0)
                       EXCEPT !.contacts = MaxContacts])

SpecBounce == InitBounce /\ [][NextGame]_vars

\* a duel to one point with a range or a shield pickup
InitFlight ==
  \E type \in {"range", "shield"} :
    InitGame(Duel, 1, Budget(FlightThrows, <<type>>, 1, 0, 0))

SpecFlight == InitFlight /\ [][NextGame]_vars

\* a duel to one point with a penetrate pickup, in which projectiles meet
\* walls and the arena boundary
InitPenetrate ==
  InitGame(Duel, 1, [Budget(PenetrateThrows, <<"penetrate">>, 1, 0, 0)
                       EXCEPT !.contacts = MaxContacts])

SpecPenetrate == InitPenetrate /\ [][NextGame]_vars

\* a duel to one point with a freeze pickup, in which the players dash
InitDash ==
  InitGame(Duel, 1, [Budget(DashThrows, <<"freeze">>, 1, 0, 0)
                       EXCEPT !.dashes = MaxDashes])

SpecDash == InitDash /\ [][NextGame]_vars

\* a duel to one point in which the action is held for up to HoldTicks updates
InitCharge ==
  InitGame(Duel, 1, [Budget(MaxThrows, << >>, 0, 0, 0) EXCEPT !.hold = HoldTicks])

SpecCharge == InitCharge /\ [][NextGame]_vars

(* ------------------------------------------------------------------ *)
(* The replay functions of GameState, called as GameScene calls them:  *)
(* frames are recorded, then startReplay on a buffer that is not       *)
(* empty, then advanceReplay once per update, then resetRound          *)
(* ------------------------------------------------------------------ *)
ReplayFrames == [time : 1 .. MaxRecorded, x : {0, 1}]

InitReplay ==
  /\ InitScene(Duel, 1, Budget(0, << >>, 0, 0, 0))
  /\ \E speed \in {5, 10, ReplaySpeed} : replay = Replay0(speed)

ReplayVars ==
  <<scene, pc, GameSettings, GameState, players, boomerangs, fireTrails, powerups,
    hasWater, timers, emitted, moved, menu, hist, budget>>

\* GameScene.recordReplayFrame in updateFight and updateKO
ReplayRecord ==
  /\ ~replay.replayPlaying /\ Len(replay.log) < MaxRecorded
  /\ \E frame \in ReplayFrames :
       /\ frame.time = Len(replay.log) + 1
       /\ replay' = replayRecord(replay, frame)
  /\ UNCHANGED ReplayVars

\* updateRoundEnd: the replay starts when the buffer holds frames
ReplayStart ==
  /\ ~replay.replayPlaying /\ Len(replay.replayBuffer) > 0
  /\ replay' = replayStart(replay)
  /\ UNCHANGED ReplayVars

ReplayAdvance ==
  /\ replay.replayPlaying /\ replay.advances < MaxAdvances
  /\ replay' = replayAdvance(replay)
  /\ UNCHANGED ReplayVars

ReplayReset ==
  /\ replay.replayPlaying
  /\ replay' = replayReset(replay)
  /\ UNCHANGED ReplayVars

NextReplay == ReplayRecord \/ ReplayStart \/ ReplayAdvance \/ ReplayReset

SpecReplay == InitReplay /\ [][NextReplay]_vars

\* a duel to one point with a fire pickup
InitBurn == InitGame(Duel, 1, Budget(BurnThrows, <<"fire">>, 1, 0, 0))

SpecBurn == InitBurn /\ [][NextGame]_vars

\* a duel to one point in which the pause key is pressed
InitPause ==
  InitGame(Duel, 1, [Budget(PauseThrows, << >>, 0, 0, 0) EXCEPT !.pauses = MaxPauses])

NextPause == NextGame \/ PausePress \/ UpdatePause

SpecPause == InitPause /\ [][NextPause]_vars

\* C11 as stated: during a match every change of GameState.state follows one
\* of the edges ready -> fight, fight -> ko, ko -> roundEnd, roundEnd -> fight,
\* roundEnd -> win.
C11_PhaseEdges ==
  [][(scene = "game" /\ GameState'.state # GameState.state) =>
       <<GameState.state, GameState'.state>> \in
         {<<"ready", "fight">>, <<"fight", "ko">>, <<"ko", "roundEnd">>,
          <<"roundEnd", "fight">>, <<"roundEnd", "win">>}]_vars


Resumed == MenuAction("resume") \in emitted

C13_WinStays ==
  [][(scene = "game" /\ GameState.state = "win" /\ GameState'.state # "win") =>
       MenuAction("rematch") \in emitted']_vars


\* C14: after every contact with a wall or with the arena boundary, a
\* projectile whose bounce count has reached maxBounces is returning: the
\* contact that brings the count to maxBounces turns it round, and so does
\* every later contact (a shield reflection sends it out again with its count
\* kept), whatever its speed.
C14_BounceCap ==
  \A i \in DOMAIN boomerangs :
    (boomerangs[i].touched /\ boomerangs[i].bounces >= boomerangs[i].maxBounces)
      => boomerangs[i].returning

\* a projectile at its cap was sent out again by a shield and has met a wall
C14_Witness ==
  \E i \in DOMAIN boomerangs :
    /\ boomerangs[i].touched /\ boomerangs[i].returning
    /\ boomerangs[i].bounces > boomerangs[i].maxBounces
    /\ \E id \in Ids(Len(players)) : Bounced(id)


Advanced == replay'.advances = replay.advances + 1

\* the frame that was recorded at the place of the buffer being played
AsRecorded == replay.log[replay.dropped + replay.replayPlaybackIndex + 1]

\* C15 as stated: with replaySpeed 1.0 every advanceReplay moves the playback
\* index forward by exactly one frame, and getReplayFrame returns the frame as
\* it was recorded at that index.
C15_OneFramePerAdvance ==
  [][(replay.replaySpeed = 10 /\ Advanced) =>
       /\ replay'.replayPlaybackIndex = replay.replayPlaybackIndex + 1
       /\ getReplayFrame(replay)' = AsRecorded']_vars

\* C15 amended: with replaySpeed 1.0 every advanceReplay moves the playback
\* index forward by exactly one frame, going back to index 0 after the last
\* frame of the buffer, and getReplayFrame returns the frame as it was recorded
\* at that index.
C15_OneFramePerAdvanceLooping ==
  [][(replay.replaySpeed = 10 /\ Advanced) =>
       /\ replay'.replayPlaybackIndex =
            (replay.replayPlaybackIndex + 1) % Len(replay.replayBuffer)
       /\ getReplayFrame(replay)' = AsRecorded']_vars

\* at speed 1.0 the playback has gone through a buffer that had dropped its
\* oldest frame, and has come back to its first frame
C15_Witness ==
  /\ replay.replaySpeed = 10 /\ replay.replayPlaying /\ replay.dropped > 0
  /\ replay.advances >= ReplayMaxFrames /\ replay.replayPlaybackIndex = 0


\* C16 as stated: whenever a round starts (state ready), the first round after
\* a rematch or a restart included, all players are alive, the replay buffer
\* is empty with playback stopped, and winnerConfirmed is false.
C16_RoundStartsClean ==
  (scene = "game" /\ GameState.state = "ready") =>
    /\ \A i \in DOMAIN players : players[i].alive
    /\ \A i \in DOMAIN GameState.playerScores : GameState.playerScores[i].isAlive
    /\ GameState.replayLen = 0 /\ ~GameState.replayPlaying
    /\ ~GameState.winnerConfirmed


TeamMode == \E i \in DOMAIN GameSettings.players : GameSettings.players[i].teamIndex >= 0

\* a team, or a player of no team
FactionOf(id) == IF TeamOf(id) >= 0 THEN <<"team", TeamOf(id)>> ELSE <<"solo", id>>

Factions(ids) == {FactionOf(id) : id \in ids}

\* C17: in team mode, a CollisionSystem pass that kills somebody ends the
\* round (state ko) exactly when the players it leaves alive belong to at most
\* one faction; when one faction is left, roundWinner is one of its living
\* members; when two or more are left, state, roundWinner and the scores stay as
\* they were.
C17_TeamRoundEnd ==
  [][(pc = "collision" /\ scene = "game" /\ TeamMode /\ Died # {}) =>
       LET left == Factions(Living')
       IN /\ Cardinality(left) <= 1 => GameState'.state = "ko"
          /\ Cardinality(left) = 1 =>
               /\ GameState'.roundWinner \in Living'
               /\ FactionOf(GameState'.roundWinner) \in left
          /\ Cardinality(left) >= 2 =>
               /\ GameState'.state = GameState.state
               /\ GameState'.roundWinner = GameState.roundWinner
               /\ Scores(GameState') = Scores(GameState)
               /\ timers' = timers]_vars

\* the player of no team has been killed and both members of the team live:
\* the round is over, won by the first of them
C17_Witness ==
  /\ scene = "game" /\ GameSettings.players = TeamAndSolo
  /\ Living = {0, 1} /\ GameState.state = "ko"
  /\ GameState.roundWinner = 0 /\ GameState.roundWinnerTeam = 0


\* C18 as stated: at each burnDamageInterval of the burn timer the burning
\* player is killed: when player:burnDamage has been issued for a player, that
\* player is not alive.
C18_BurnKills ==
  \A id \in Ids(Len(players)) :
    (scene = "game" /\ BurnDamage(id) \in emitted) => ~players[id + 1].alive


Shielded(id) == hasPowerup(players[id + 1], "shield") /\ players[id + 1].shieldHits > 0

\* C19 as stated: a hit by a freeze-flagged projectile on an unshielded player
\* never kills, whatever the victim's status: a CollisionSystem pass in which
\* every projectile is freeze-flagged and no living player is shielded kills
\* nobody.
C19_FreezeNeverKills ==
  [][(/\ pc = "collision" /\ scene = "game"
      /\ \A i \in DOMAIN boomerangs : boomerangs[i].hasFreeze
      /\ \A id \in Living : ~Shielded(id)) => Died = {}]_vars


Reflected == \E id \in Ids(Len(players)) : Bounced(id)

Frozen(id) == [type |-> "player:freeze", victimId |-> id] \in emitted

\* C20: in a CollisionSystem pass a player catches a projectile (player:catch,
\* hasBoomerang true, one projectile of theirs fewer) only if they were alive
\* and overlapped a returning projectile of their own with catchCooldown <= 0;
\* and a living player who overlaps such a projectile catches it, unless the
\* pass has killed them or a shield has sent a projectile out again before.
\* The projectile caught resolves no hit afterwards: when the only projectile
\* is caught by the first player, nobody is killed, frozen or reflects it.
C20_CatchIffOwnReturningReady ==
  [][(pc = "collision") =>
       \A id \in Ids(Len(players)) :
         /\ Caught(id)' =>
              /\ id \in hist'.catchable
              /\ players'[id + 1].hasBoomerang
              /\ Owned(id)' < Owned(id)
         /\ (id \in hist'.catchable /\ players'[id + 1].alive /\ ~Reflected') =>
              Caught(id)'
         /\ (Caught(id)' /\ id = 0 /\ Len(boomerangs) = 1) =>
              /\ Died = {} /\ ~Reflected'
              /\ \A v \in Ids(Len(players)) : ~Frozen(v)']_vars

\* the first player has caught their returning projectile, and the pass is
\* over with both players alive
C20_Witness ==
  /\ pc = "scene" /\ Caught(0) /\ hist.catchable = {0}
  /\ players[1].hasBoomerang /\ Owned(0) = 0
  /\ \A i \in DOMAIN players : players[i].alive


OwnFresh(id) ==
  \A i \in DOMAIN boomerangs :
    boomerangs[i].ownerId = id => boomerangs[i].lifetime <= FreshTicks

OnlyOwn(id) == \A i \in DOMAIN boomerangs : boomerangs[i].ownerId = id

\* C21: a CollisionSystem pass in which all projectiles of a player are at most
\* 20 ticks old resolves no self-kill of that player (no player:death of theirs
\* without a killer); and when theirs are the only projectiles in the world,
\* the pass leaves the player alive, does not freeze them and takes no shield
\* charge of theirs.
C21_FreshProjectileSparesOwner ==
  [][(pc = "collision") =>
       \A id \in Living :
         OwnFresh(id) =>
           /\ DeathEvent(id, -1) \notin emitted'
           /\ OnlyOwn(id) =>
                /\ players'[id + 1].alive
                /\ players'[id + 1].frozen = players[id + 1].frozen
                /\ players'[id + 1].frozenTimer = players[id + 1].frozenTimer
                /\ players'[id + 1].shieldHits >= players[id + 1].shieldHits]_vars

\* a pass is over in which the only projectile was a fresh, freeze-flagged one
\* of a living player without a shield: whether or not it overlapped them, its
\* owner is neither dead nor frozen
C21_Witness ==
  /\ pc = "scene" /\ scene = "game" /\ Len(boomerangs) = 1
  /\ boomerangs[1].hasFreeze /\ boomerangs[1].lifetime <= FreshTicks
  /\ boomerangs[1].lifetime > 0
  /\ players[boomerangs[1].ownerId + 1].alive
  /\ ~players[boomerangs[1].ownerId + 1].frozen


\* the projectiles that a step turns from returning to outbound (a step that
\* does not shorten the list keeps every projectile at its place)
TurnedOutbound ==
  {i \in DOMAIN boomerangs :
     /\ Len(boomerangs') >= Len(boomerangs)
     /\ boomerangs[i].returning /\ ~boomerangs'[i].returning}

\* C22 as stated: a projectile that is returning stays returning for as long
\* as it exists.
C22_ReturningStays == [][TurnedOutbound = {}]_vars

\* C22: a projectile that is returning stays returning for as long as it
\* exists, except that a CollisionSystem pass in which a player with a shield
\* charge reflects it sends it out again with returnTimer 0; no other step
\* clears the flag.
C22_ReturningStaysUnlessReflected ==
  [][\A i \in TurnedOutbound :
       /\ pc = "collision"
       /\ boomerangs'[i].returnTimer = 0
       /\ \E id \in Ids(Len(players)) :
            Shielded(id) /\ Bounced(id)']_vars

\* a projectile has been returning since before its last two updates, through
\* a pass in which a player held a shield charge
C22_Witness ==
  /\ pc = "scene"
  /\ \E i \in DOMAIN boomerangs :
       /\ boomerangs[i].returning
       /\ boomerangs[i].lifetime >= boomerangs[i].returnTimer + 2
  /\ \E id \in Ids(Len(players)) : Shielded(id)


\* C23: a CollisionSystem pass in which a projectile kills a player removes a
\* projectile from the world, and a pass with one projectile in the world
\* kills at most one player.
C23_LethalHitDespawns ==
  [][(pc = "collision" /\ scene = "game") =>
       /\ Died # {} => Len(boomerangs') < Len(boomerangs)
       /\ Len(boomerangs) = 1 => Cardinality(Died) <= 1]_vars


\* C24 as stated, second half: a projectile that has had more projectile-system
\* ticks since its throw than the ceiling is returning.
C24_ReturningByCeiling ==
  \A i \in DOMAIN boomerangs :
    PastReturnTime(boomerangs[i], boomerangs[i].lifetime) => boomerangs[i].returning

\* C24: an update of an outbound projectile turns it round if its speed is
\* under the floor or its returnTimer, counted up by that update, is over the
\* ceiling (maxReturnTime, or 1.8 times it with extended range), and otherwise
\* only a boundary bounce turns it; returnTimer counts the updates of the
\* projectile while it is outbound and starts again from 0 when a shield
\* reflects it, so an outbound projectile has never had more updates than the
\* ceiling since its throw or its last reflection.
C24_ReturnsAtFloorOrCeiling ==
  /\ [](\A i \in DOMAIN boomerangs :
          LET b == boomerangs[i]
          IN /\ ~b.returning => ~PastReturnTime(b, b.returnTimer)
             /\ \A slow \in BOOLEAN, edges \in 0 .. 2 :
                  LET u == updateBoomerang(b, players, slow, edges)
                  IN ~b.returning =>
                       /\ (slow \/ PastReturnTime(b, b.returnTimer + 1)) => u.returning
                       /\ (~slow /\ ~PastReturnTime(b, b.returnTimer + 1) /\ edges = 0)
                            => ~u.returning /\ u.returnTimer = b.returnTimer + 1)
  /\ [][\A i \in DOMAIN boomerangs :
          Len(boomerangs') >= Len(boomerangs) =>
            \/ boomerangs'[i].returnTimer = boomerangs[i].returnTimer
            \/ /\ pc = "boomerang" /\ ~boomerangs[i].returning
               /\ boomerangs'[i].returnTimer = boomerangs[i].returnTimer + 1
               /\ boomerangs'[i].lifetime = boomerangs[i].lifetime + 1
            \/ /\ pc = "collision" /\ Reflected'
               /\ boomerangs'[i].returnTimer = 0 /\ ~boomerangs'[i].returning]_vars

\* an extended-range projectile has turned round at the first update that took
\* its returnTimer over 1.8 times maxReturnTime
C24_Witness ==
  \E i \in DOMAIN boomerangs :
    /\ boomerangs[i].extendedRange /\ boomerangs[i].returning
    /\ boomerangs[i].bounces = 0
    /\ PastReturnTime(boomerangs[i], boomerangs[i].returnTimer)
    /\ ~PastReturnTime(boomerangs[i], boomerangs[i].returnTimer - 1)
    /\ boomerangs[i].returnTimer > MaxReturnTicks + 1


OwnerAlive(b) == b.ownerId \in Living

\* C25: an update of a returning projectile whose owner is dead or absent does
\* not steer it; and BoomerangSystem removes, in the update that takes its
\* lifetime over maxLifetime, every projectile: each update adds one to the
\* lifetime of every projectile, those that were at maxLifetime are gone after
\* it, and no state holds a projectile with a lifetime over maxLifetime.
C25_UnsteeredAndExpires ==
  /\ [](\A i \in DOMAIN boomerangs : boomerangs[i].lifetime <= MaxLifetimeTicks)
  /\ [][(pc = "boomerang" /\ pc' # "boomerang" /\ GameState' = GameState) =>
          /\ Len(boomerangs') =
               Cardinality({i \in DOMAIN boomerangs :
                              boomerangs[i].lifetime < MaxLifetimeTicks})
          /\ Len(boomerangs') = Len(boomerangs) =>
               \A i \in DOMAIN boomerangs :
                 /\ boomerangs'[i].lifetime = boomerangs[i].lifetime + 1
                 /\ (boomerangs[i].returning /\ ~OwnerAlive(boomerangs[i]))
                      => ~boomerangs'[i].steered]_vars

\* a projectile has been updated in its returning branch after its owner's
\* death and was not steered; it is at maxLifetime, so the next update
\* removes it
C25_Witness ==
  \E i \in DOMAIN boomerangs :
    /\ boomerangs[i].returning /\ ~OwnerAlive(boomerangs[i])
    /\ ~boomerangs[i].steered
    /\ boomerangs[i].lifetime > boomerangs[i].returnTimer
    /\ boomerangs[i].lifetime = MaxLifetimeTicks


\* the players who own a projectile that the coming update takes over
\* maxLifetime
Expiring ==
  {boomerangs[i].ownerId :
     i \in {j \in DOMAIN boomerangs : boomerangs[j].lifetime = MaxLifetimeTicks}}

\* C26: the BoomerangSystem update that takes a projectile's lifetime over
\* maxLifetime removes it; its owner, if alive with hasBoomerang false, has
\* hasBoomerang true afterwards, and the update changes nothing else of any
\* player: a dead owner, an owner already holding a boomerang and every other
\* player are as they were.
C26_ExpiryReturnsToLivingOwner ==
  [][(pc = "boomerang" /\ pc' # "boomerang" /\ GameState' = GameState) =>
       /\ \A i \in DOMAIN boomerangs' : boomerangs'[i].lifetime <= MaxLifetimeTicks
       /\ Len(boomerangs) - Len(boomerangs') =
            Cardinality({i \in DOMAIN boomerangs :
                           boomerangs[i].lifetime = MaxLifetimeTicks})
       /\ \A id \in Ids(Len(players)) :
            players'[id + 1] =
              IF id \in Expiring /\ players[id + 1].alive /\ ~players[id + 1].hasBoomerang
              THEN [players[id + 1] EXCEPT !.hasBoomerang = TRUE]
              ELSE players[id + 1]]_vars

\* the projectile of a dead player has run out of lifetime: it is gone, and
\* its owner is still dead and without a boomerang, while the living player
\* holds theirs
C26_Witness ==
  /\ pc = "collision" /\ scene = "game" /\ boomerangs = << >>
  /\ \E id \in Dead : ~players[id + 1].hasBoomerang
  /\ \E id \in Living : players[id + 1].hasBoomerang


Threw(id) == [type |-> "player:throw", playerId |-> id] \in emitted

Dashed(id) == [type |-> "player:dash", playerId |-> id] \in emitted

\* what the input of a tick can change of a player
Acts(p) == <<p.charging, p.chargeTime, p.hasBoomerang, p.dashing, p.dashTimer>>

\* C27: a PlayerSystem update that finds a living player frozen with more than
\* one tick of frozenTimer left applies no input to them: it starts no dash,
\* starts or continues no charge, throws nothing and does not integrate their
\* position, and leaves them frozen with one tick less; freezePlayer sets the
\* timer to freezeDuration, and the update that takes it to 0 clears frozen,
\* so a living player is frozen for freezeDuration PlayerSystem updates.
C27_FrozenTakesNoInput ==
  /\ [](\A id \in Living :
          players[id + 1].frozen =>
            players[id + 1].frozenTimer \in 1 .. FreezeTicks)
  /\ [][\A id \in Living :
          /\ (pc = "player" /\ players[id + 1].frozen /\ players' # players) =>
               IF players[id + 1].frozenTimer > 1
               THEN /\ players'[id + 1].frozen
                    /\ players'[id + 1].frozenTimer = players[id + 1].frozenTimer - 1
                    /\ Acts(players'[id + 1]) = Acts(players[id + 1])
                    /\ ~Threw(id)' /\ ~Dashed(id)'
                    /\ Owned(id)' = Owned(id)
                    /\ id \notin hist'.integrated
               ELSE ~players'[id + 1].frozen
          /\ (~players[id + 1].frozen /\ players'[id + 1].frozen) =>
               /\ pc = "collision"
               /\ players'[id + 1].frozenTimer = FreezeTicks]_vars

\* a player frozen while charging has been through an update: they are still
\* charging, hold their boomerang and have not moved, while the other player
\* has
C27_Witness ==
  \E id \in Living :
    /\ pc # "player" /\ players[id + 1].frozen
    /\ players[id + 1].frozenTimer < FreezeTicks
    /\ players[id + 1].charging /\ players[id + 1].hasBoomerang
    /\ id \notin hist.integrated /\ hist.integrated # {}


\* the update of this player returns at the freeze test
HeldFrozen(p) == p.frozen /\ p.frozenTimer > 1

\* dashCooldown after the decrement at the top of updatePlayer
CooledDown(p) == IF p.dashCooldown > 0 THEN p.dashCooldown - 1 ELSE 0

\* C28 as stated, the duration: a dash ends in the dashDuration-th tick from
\* its start on, when the cooldown set at the start has
\* dashCooldown - dashDuration + 1 ticks to go; so after every tick a living
\* player who is dashing has a cooldown that much longer than what is left of
\* the dash.
C28_DashLastsDuration ==
  \A id \in Living :
    players[id + 1].dashing =>
      players[id + 1].dashCooldown - players[id + 1].dashTimer
        = DashCooldownTicks - DashTicks + 1

\* C28: PlayerSystem starts a dash of a living player only in an update that
\* reads their input (not one that returns at the freeze test) and finds
\* dashCooldown <= 0 after its decrement, the player neither dashing nor
\* charging; the start sets dashCooldown, which every update of the player
\* counts down by one, so no dash starts in the dashCooldown - 1 updates after
\* a start; the dash ends in the dashDuration-th update, from the start on,
\* that gets past the freeze test: an update that returns there leaves
\* dashing and dashTimer as they are.
C28_DashStartsAndLasts ==
  [][\A id \in Living :
       (pc = "player" /\ players' # players) =>
         LET p == players[id + 1]
             q == players'[id + 1]
         IN /\ Dashed(id)' =>
                 /\ CooledDown(p) <= 0 /\ ~p.dashing /\ ~p.charging
                 /\ ~HeldFrozen(p)
                 /\ q.dashCooldown = DashCooldownTicks
                 /\ q.dashTimer = DashTicks - 1
                 /\ q.dashing = (DashTicks > 1)
            /\ ~Dashed(id)' =>
                 /\ q.dashCooldown = CooledDown(p)
                 /\ ~p.dashing => ~q.dashing
                 /\ (p.dashing /\ HeldFrozen(p)) =>
                      q.dashing /\ q.dashTimer = p.dashTimer
                 /\ (p.dashing /\ ~HeldFrozen(p)) =>
                      /\ q.dashTimer = p.dashTimer - 1
                      /\ q.dashing = (q.dashTimer > 0)]_vars

\* a player has started a dash in the last update: dashing, with the whole
\* cooldown ahead, after both dashes of the run have been started
C28_Witness ==
  \E id \in Living :
    /\ pc # "player" /\ Dashed(id) /\ players[id + 1].dashing
    /\ players[id + 1].dashCooldown = DashCooldownTicks
    /\ budget.dashes = 0


\* C29: no player's chargeTime is over maxCharge.
C29_ChargeTimeCapped ==
  \A i \in DOMAIN players : players[i].chargeTime <= MaxChargeTicks


\* C30: after any number of recordReplayFrame calls since the buffer was last
\* emptied, the buffer holds min(calls, replayMaxFrames) frames, and they are
\* the frames of the last calls in the order of the calls.
C30_BufferKeepsNewest ==
  LET n == Len(replay.log)
      k == Min(n, ReplayMaxFrames)
  IN /\ Len(replay.replayBuffer) = k
     /\ \A j \in 1 .. k : replay.replayBuffer[j] = replay.log[n - k + j]

\* two more frames than the buffer holds have been recorded: the two oldest
\* are gone
C30_Witness ==
  /\ Len(replay.log) = ReplayMaxFrames + 2
  /\ Len(replay.replayBuffer) = ReplayMaxFrames
  /\ replay.replayBuffer[1] = replay.log[3]


\* the playback index after one advanceReplay from index i of a buffer of n
\* frames
NextFrame(i, n) == IF i + 1 >= n THEN 0 ELSE i + 1

\* C31: every GameScene update in roundEnd that stays in roundEnd leaves the
\* replay playing and moves the playback index one frame on from where it was
\* (from the start index, if the replay starts in this update), from the last
\* frame of the buffer to frame 0.
C31_ReplayLoopsInRoundEnd ==
  [][(/\ pc = "scene" /\ scene = "game" /\ timers' = timers
      /\ GameState.state = "roundEnd" /\ GameState'.state = "roundEnd"
      /\ GameState' # GameState) =>
       /\ GameState'.replayPlaying
       /\ GameState'.replayPlaybackIndex =
            NextFrame(IF GameState.replayPlaying THEN GameState.replayPlaybackIndex
                      ELSE startReplay(GameState).replayPlaybackIndex,
                      GameState.replayLen)]_vars


\* C32: a CollisionSystem pass leaves the bounce count of every projectile
\* with canPenetrate as it was, does not mark it as having met a wall and
\* does not turn it round, whatever walls it overlaps; its bounce count
\* changes only in the BoomerangSystem update, which bounces it off the arena
\* boundary.
C32_PenetrateSkipsWalls ==
  [][\A i \in DOMAIN boomerangs :
       (boomerangs[i].canPenetrate /\ Len(boomerangs') >= Len(boomerangs)) =>
         /\ boomerangs'[i].bounces # boomerangs[i].bounces => pc = "boomerang"
         /\ pc = "collision" =>
              /\ ~boomerangs'[i].touched
              /\ boomerangs[i].returning \/ ~boomerangs'[i].returning]_vars

\* a lone projectile with canPenetrate has overlapped a wall, which has used
\* one contact of the run, and has not bounced
C32_Witness ==
  /\ pc = "scene" /\ Len(boomerangs) = 1
  /\ boomerangs[1].canPenetrate /\ boomerangs[1].bounces = 0
  /\ budget.contacts < MaxContacts
  /\ budget.throws = PenetrateThrows - 1


\* C33: the callback of a timer that triggerRoundEnd has scheduled changes
\* GameState only when it finds the state ko: in pause, ready, fight,
\* roundEnd and win it leaves the state and the state timer as they are.
C33_TimerOnlyEndsKO ==
  [][(timers' = timers - 1 /\ GameState.state # "ko") =>
       /\ GameState'.state = GameState.state
       /\ GameState'.stateTimer = GameState.stateTimer]_vars

\* C34 as stated: at every tick boundary in state fight at least two players
\* (in team mode: two factions) are alive, whatever killed the others.
C34_FightHasTwoAlive ==
  (AtFrameStart /\ GameState.state = "fight") =>
    /\ Cardinality(AliveIds(players)) >= 2
    /\ TeamMode => Cardinality(Factions({i - 1 : i \in AliveIds(players)})) >= 2

\* C35 as stated: the alive bookkeeping of GameState agrees with the entities:
\* for every player that has a score entry, playerScores[id].isAlive (of which
\* alivePlayers is the filter) equals the alive flag of the player's entity.
C35_AliveBookkeepingAgrees ==
  \A i \in DOMAIN players :
    HasScore(GameState, i - 1) =>
      GameState.playerScores[i].isAlive = players[i].alive

\* C36 as stated: the player recorded as roundWinner is alive at the moment the
\* state becomes roundEnd.
C36_WinnerAliveAtRoundEnd ==
  [][(/\ scene = "game"
      /\ GameState.state # "roundEnd" /\ GameState'.state = "roundEnd"
      /\ GameState'.roundWinner >= 0) =>
       players'[GameState'.roundWinner + 1].alive]_vars

\* C37 as stated: whenever a returning projectile past the freshness floor
\* overlaps its own living owner, the owner's catchCooldown is already <= 0:
\* no CollisionSystem pass, in fight or in ko, tests such an overlap with the
\* cooldown still running.
C37_OwnReturnIsCatchable ==
  hist.uncatchable = {}

=============================================================================
